---- MODULE Spec2Model ----
(***************************************************************************)
(* Model of src/main.py: a Telegram bot whose /s command relays a keyword  *)
(* to the Serper search API and formats the organic results as a reply.    *)
(*                                                                         *)
(* Python values are tagged records: None, str (by its length n; a link    *)
(* also keeps its scheme, "www." flag and host), int, JSON list, JSON      *)
(* object.  A message text is kept by its structure (which template, which *)
(* values were interpolated) together with the number of characters kept   *)
(* of it and the literal appended after a cut, so that len(), slicing and  *)
(* concatenation are computed as Python computes them.  Vietnamese         *)
(* literals are written without diacritics; their lengths are those of the *)
(* source literals.                                                        *)
(***************************************************************************)
EXTENDS Integers, Sequences, FiniteSets, TLC

VARIABLES
    TELEGRAM_BOT_TOKEN,   \* os.getenv("TELEGRAM_BOT_TOKEN"): None or a str
    SERPER_API_KEY,       \* os.getenv("SERPER_API_KEY"): None or a str
    DEFAULT_GL,           \* os.getenv("SERPER_GL", "vn")
    DEFAULT_HL,           \* os.getenv("SERPER_HL", "vi")
    provider,             \* the JSON body the search provider answers a 2xx with
    proc,                 \* "loaded" | "polling" | "exited"
    handlers,             \* the commands registered on the application
    last                  \* what the last handled update did

vars == <<TELEGRAM_BOT_TOKEN, SERPER_API_KEY, DEFAULT_GL, DEFAULT_HL,
          provider, proc, handlers, last>>

config == <<TELEGRAM_BOT_TOKEN, SERPER_API_KEY, DEFAULT_GL, DEFAULT_HL, provider>>

----------------------------------------------------------------------------
(* Bounds of the model *)

MaxOrganic == 2        \* longest organic list the provider answers with
ShortTitleLen == 5     \* length of an ordinary title
ShortSnippetLen == 20  \* length of an ordinary snippet
EdgeTitleLen == 3688   \* a title that makes a one-entry reply for "hi88" exactly 4000 long

----------------------------------------------------------------------------
(* Program constants *)

NUM == 10                 \* num=10 in the request
SNIPPET_MAX == 200        \* len(snippet) > 200
TEXT_BUDGET == 4000       \* len(text) > 4000
CUT_AT == 3990            \* text[:3990]
TELEGRAM_LIMIT == 4096    \* the platform's message limit
HEADER_L1_LEN == 31       \* "Ket qua Google cho tu khoa: <b>"
HEADER_L1_END_LEN == 5    \* "</b>\n"
HEADER_L2_LEN == 42       \* "Quoc gia: <b>Viet Nam</b> (gl=vn, hl=vi)\n\n"
ENTRY_FIXED_LEN == 12     \* ". <b>" + "</b>\n" + "\n" + "\n"
CUT_SUFFIX == "\n...(cat bot)..."

----------------------------------------------------------------------------
(* Python values *)

None == [t |-> "none"]
Missing == [t |-> "missing"]          \* a key the JSON object does not have
Str(n) == [t |-> "str", n |-> n]
PyInt(v) == [t |-> "int", v |-> v]
List(items) == [t |-> "list", items |-> items]
Url(scheme, www, host) ==
    [t |-> "str",
     n |-> Len(scheme) + 3 + (IF www THEN 4 ELSE 0) + Len(host),
     scheme |-> scheme, www |-> www, host |-> host]

\* bool(v)
Truthy(v) ==
    CASE v.t = "none" -> FALSE
      [] v.t = "missing" -> FALSE
      [] v.t = "str" -> v.n > 0
      [] v.t = "int" -> v.v # 0
      [] v.t = "list" -> Len(v.items) > 0
      [] OTHER -> TRUE

\* d.get(key)
Get(d, key) == IF d[key] = Missing THEN None ELSE d[key]

\* d.get(key, default)
GetDefault(d, key, default) == IF d[key] = Missing THEN default ELSE d[key]

\* a or b
Or(a, b) == IF Truthy(a) THEN a ELSE b

\* len(str(v)) for the values an f-string interpolates
RECURSIVE Digits(_)
Digits(k) == IF k < 10 THEN 1 ELSE 1 + Digits(k \div 10)

StrLen(v) ==
    CASE v.t = "none" -> 4
      [] v.t = "str" -> v.n
      [] v.t = "int" -> IF v.v < 0 THEN 1 + Digits(-v.v) ELSE Digits(v.v)

Min(a, b) == IF a < b THEN a ELSE b

----------------------------------------------------------------------------
(* What the environment can hand the program *)

A1 == Url("https", TRUE, "a.com")     \* https://www.a.com
A2 == Url("http", FALSE, "a.com")     \* http://a.com
B1 == Url("https", FALSE, "b.com")    \* https://b.com

Item(title, link, snippet, position) ==
    [t |-> "obj", title |-> title, link |-> link,
     snippet |-> snippet, position |-> position]

Items ==
    {Item(Str(ShortTitleLen), l, Str(ShortSnippetLen), p) :
        l \in {A1, A2, B1}, p \in {Missing, PyInt(1), PyInt(2)}}
    \cup {Item(ti, A1, Missing, PyInt(1)) : ti \in {Missing, Str(0)}}
    \cup {Item(Str(ShortTitleLen), l, None, PyInt(1)) : l \in {Missing, Str(0)}}
    \cup {Item(Str(n), B1, Str(SNIPPET_MAX + 1), PyInt(1)) :
        n \in {EdgeTitleLen, EdgeTitleLen + 1}}
    \cup {Item(Str(ShortTitleLen), B1, Str(SNIPPET_MAX), PyInt(3))}
    \cup {Str(3)}                     \* an organic entry that is no JSON object

SeqsUpTo(S, n) == UNION {[1..k -> S] : k \in 0..n}

Body(organic, organic_results) ==
    [t |-> "obj", organic |-> organic, organic_results |-> organic_results]

AltList == List(<<Item(Str(ShortTitleLen), B1, Missing, PyInt(2))>>)

Bodies ==
    {[t |-> "invalid"], List(<<>>)}
    \cup {Body(List(l), Missing) : l \in SeqsUpTo(Items, MaxOrganic)}
    \cup {Body(o, List(l)) : o \in {Missing, List(<<>>)}, l \in SeqsUpTo(Items, 1)}
    \cup {Body(List(l), AltList) : l \in SeqsUpTo(Items, 1)}

\* what requests.post / raise_for_status can do
Https ==
    {[exc |-> e, status |-> 0] : e \in {"ConnectionError", "Timeout"}}
    \cup {[exc |-> "none", status |-> st] : st \in {200, 500}}

\* context.args: the whitespace-separated words after the command
ArgLists == {<<>>, <<"hi88">>, <<"nha", "cai", "hi88">>}

----------------------------------------------------------------------------
(* serper_search *)

\* a filter that drops an item only when both fields are empty
KeepEither(title, link) == Truthy(title) \/ Truthy(link)

\* if not title or not link: continue
Keep(title, link) == ~(~Truthy(title) \/ ~Truthy(link))

\* for item in organic: ... results.append({...})
RECURSIVE CollectResults(_, _)
CollectResults(items, results) ==
    IF items = <<>> THEN [raised |-> "none", results |-> List(results)]
    ELSE LET item == Head(items) IN
         IF item.t # "obj" THEN [raised |-> "AttributeError", results |-> None]
         ELSE LET title == Get(item, "title")
                  link == Get(item, "link")
                  snippet == GetDefault(item, "snippet", Str(0))
                  position == Get(item, "position")
              IN IF Keep(title, link)
                 THEN CollectResults(Tail(items),
                        Append(results, [position |-> position, title |-> title,
                                         link |-> link, snippet |-> snippet]))
                 ELSE CollectResults(Tail(items), results)

\* the call without the except clause: the requests exception propagates as it is
HttpCallUnwrapped(http) ==
    IF http.exc # "none"
    THEN [raised |-> "RequestException", message |-> <<http.exc>>]
    ELSE IF http.status >= 400
    THEN [raised |-> "RequestException", message |-> <<"HTTPError">>]
    ELSE [raised |-> "none", message |-> <<>>]

\* requests.post(...); resp.raise_for_status() inside try/except RequestException
HttpCall(http) ==
    IF http.exc # "none"
    THEN [raised |-> "RuntimeError", message |-> <<"Loi goi Serper API: ", http.exc>>]
    ELSE IF http.status >= 400
    THEN [raised |-> "RuntimeError", message |-> <<"Loi goi Serper API: ", "HTTPError">>]
    ELSE [raised |-> "none", message |-> <<>>]

\* data = resp.json(); organic = data.get("organic") or ...; the loop
ParseBody(data) ==
    IF data.t = "invalid" THEN [raised |-> "ValueError", results |-> None]
    ELSE IF data.t # "obj" THEN [raised |-> "AttributeError", results |-> None]
    ELSE LET organic == Or(Or(Get(data, "organic"), Get(data, "organic_results")),
                           List(<<>>))
         IN CollectResults(organic.items, <<>>)

serper_search(query, gl, hl, num, http) ==
    IF ~Truthy(SERPER_API_KEY)
    THEN [raised |-> "RuntimeError", message |-> <<"SERPER_API_KEY is not set">>,
          request |-> None, results |-> None]
    ELSE LET request == [q |-> query, gl |-> gl, hl |-> hl, num |-> num]
             call == HttpCall(http)
         IN IF call.raised # "none"
            THEN [raised |-> call.raised, message |-> call.message,
                  request |-> request, results |-> None]
            ELSE LET parsed == ParseBody(provider) IN
                 IF parsed.raised # "none"
                 THEN [raised |-> parsed.raised, message |-> <<>>,
                       request |-> request, results |-> None]
                 ELSE [raised |-> "none", message |-> <<>>,
                       request |-> request, results |-> parsed.results]

----------------------------------------------------------------------------
(* search_command *)

\* " ".join(context.args).strip()
RECURSIVE Join(_)
Join(args) ==
    IF Len(args) = 1 THEN args[1] ELSE args[1] \o " " \o Join(Tail(args))

\* if len(snippet) > 200: snippet = snippet[:200] + "..."
ClipSnippet(snippet) ==
    IF snippet.n > SNIPPET_MAX THEN Str(SNIPPET_MAX + 3) ELSE snippet

\* one formatted line of the loop: f"{pos}. <b>{title}</b>\n{link}\n{snippet}\n"
FormatEntry(r) ==
    [pos |-> Get(r, "position"), title |-> Get(r, "title"), link |-> Get(r, "link"),
     snippet |-> ClipSnippet(Or(Get(r, "snippet"), Str(0)))]

\* the host of a link with scheme and leading "www." removed
Domain(link) == link.host

\* a formatter that keeps only the first result of each domain
RECURSIVE DedupByDomain(_, _)
DedupByDomain(rs, seen) ==
    IF rs = <<>> THEN <<>>
    ELSE IF Domain(Head(rs).link) \in seen THEN DedupByDomain(Tail(rs), seen)
    ELSE <<FormatEntry(Head(rs))>>
         \o DedupByDomain(Tail(rs), seen \cup {Domain(Head(rs).link)})

FormatEntriesDedup(results) == DedupByDomain(results.items, {})

\* a formatter that sorts the entries by rank (stable; no rank sorts first)
RankKey(e) == IF e.pos.t = "int" THEN e.pos.v ELSE 0

RECURSIVE InsertByRank(_, _)
InsertByRank(e, sorted) ==
    IF sorted = <<>> THEN <<e>>
    ELSE IF RankKey(e) < RankKey(Head(sorted)) THEN <<e>> \o sorted
    ELSE <<Head(sorted)>> \o InsertByRank(e, Tail(sorted))

RECURSIVE SortByRank(_)
SortByRank(es) ==
    IF es = <<>> THEN <<>>
    ELSE InsertByRank(es[Len(es)], SortByRank(SubSeq(es, 1, Len(es) - 1)))

FormatEntriesSorted(results) ==
    SortByRank([i \in 1..Len(results.items) |-> FormatEntry(results.items[i])])

\* for r in results: lines.append(...)
FormatEntries(results) ==
    [i \in 1..Len(results.items) |-> FormatEntry(results.items[i])]

EntryLen(e) ==
    StrLen(e.pos) + ENTRY_FIXED_LEN + StrLen(e.title) + StrLen(e.link) + StrLen(e.snippet)

HeaderLen(keyword) ==
    HEADER_L1_LEN + Len(keyword) + HEADER_L1_END_LEN + HEADER_L2_LEN

RECURSIVE SumLens(_)
SumLens(entries) ==
    IF entries = <<>> THEN 0 ELSE EntryLen(Head(entries)) + SumLens(Tail(entries))

\* text = "\n".join(lines), lines = [header] + the entries
Render(keyword, entries) ==
    [kind |-> "results", keyword |-> keyword, gl |-> "vn", hl |-> "vi",
     entries |-> entries,
     n |-> HeaderLen(keyword) + SumLens(entries) + Len(entries),
     tail |-> ""]

\* len(text)
TextLen(text) == text.n + Len(text.tail)

\* a cut that keeps too much of the text
CutLate(text) ==
    IF TextLen(text) > TEXT_BUDGET
    THEN [text EXCEPT !.n = Min(text.n, TELEGRAM_LIMIT - 6), !.tail = CUT_SUFFIX]
    ELSE text

\* if len(text) > 4000: text = text[:3990] + "\n...(cat bot)..."
Cut(text) ==
    IF TextLen(text) > TEXT_BUDGET
    THEN [text EXCEPT !.n = Min(text.n, CUT_AT), !.tail = CUT_SUFFIX]
    ELSE text

\* a handler that never takes the empty-list branch
NoResultsNever(results) == FALSE

\* if not results
NoResults(results) == ~Truthy(results)

\* the handler: what it sends, edits and raises for one update
search_command(args, http) ==
    IF args = <<>>
    THEN [cmd |-> "s", args |-> args, keyword |-> "", http |-> None,
          placeholder |-> FALSE, request |-> None, results |-> None,
          raised |-> "none", rendered |-> None, msg |-> [kind |-> "usage"]]
    ELSE LET keyword == Join(args)
             sr == serper_search(keyword, DEFAULT_GL, DEFAULT_HL, NUM, http)
             base == [cmd |-> "s", args |-> args, keyword |-> keyword, http |-> http,
                      placeholder |-> TRUE, request |-> sr.request,
                      results |-> sr.results, raised |-> "none", rendered |-> None,
                      msg |-> [kind |-> "placeholder"]]
         IN IF sr.raised = "RuntimeError"
            THEN [base EXCEPT !.msg = [kind |-> "error", e |-> sr.message]]
            ELSE IF sr.raised # "none"
            THEN [base EXCEPT !.raised = sr.raised]
            ELSE IF NoResults(sr.results)
            THEN [base EXCEPT !.msg = [kind |-> "noresults", keyword |-> keyword]]
            ELSE LET text == Render(keyword, FormatEntries(sr.results)) IN
                 [base EXCEPT !.rendered = text, !.msg = Cut(text)]

----------------------------------------------------------------------------
(* The process *)

Init ==
    /\ TELEGRAM_BOT_TOKEN \in {None, Str(46)}
    /\ SERPER_API_KEY \in {None, Str(40)}
    /\ DEFAULT_GL \in {"vn", "us"}
    /\ DEFAULT_HL \in {"vi", "en"}
    /\ provider \in Bodies
    /\ proc = "loaded"
    /\ handlers = {}
    /\ last = [cmd |-> "none"]

\* a main() without the token check
TokenNeverMissing == FALSE

\* if not TELEGRAM_BOT_TOKEN: raise RuntimeError(...)
TokenMissing == ~Truthy(TELEGRAM_BOT_TOKEN)

main ==
    /\ proc = "loaded"
    /\ IF TokenMissing
       THEN /\ proc' = "exited"
            /\ handlers' = handlers
       ELSE /\ handlers' = {"start", "help", "s"}
            /\ proc' = "polling"
    /\ UNCHANGED <<config, last>>

start ==
    /\ proc = "polling"
    /\ "start" \in handlers
    /\ last' = [cmd |-> "start", msg |-> [kind |-> "welcome"]]
    /\ UNCHANGED <<config, proc, handlers>>

help_command ==
    /\ proc = "polling"
    /\ "help" \in handlers
    /\ last' = [cmd |-> "help", msg |-> [kind |-> "help"]]
    /\ UNCHANGED <<config, proc, handlers>>

SearchUpdate ==
    /\ proc = "polling"
    /\ "s" \in handlers
    /\ \E args \in ArgLists, http \in Https :
          last' = search_command(args, http)
    /\ UNCHANGED <<config, proc, handlers>>

Next == main \/ start \/ help_command \/ SearchUpdate

Spec == Init /\ [][Next]_vars

----------------------------------------------------------------------------
(* Properties *)

\* an /s update with a keyword was handled
SearchDone == last.cmd = "s" /\ last.placeholder

\* the search returned a list
SearchOk == SearchDone /\ last.results # None

\* the reply is a rendered result list
ResultsReply == SearchDone /\ last.msg.kind = "results"

\* the list serper_search iterates: data.get("organic") or data.get("organic_results") or []
Chosen(data) ==
    IF data.organic # Missing /\ data.organic.items # <<>> THEN data.organic.items
    ELSE IF data.organic_results # Missing /\ data.organic_results.items # <<>>
    THEN data.organic_results.items
    ELSE <<>>

NonEmpty(v) == v.t = "str" /\ v.n > 0

Valid(item) == item.t = "obj" /\ NonEmpty(item.title) /\ NonEmpty(item.link)

HttpFailed(h) == h.exc # "none" \/ h.status \notin 200..299

Cause(h) == IF h.exc # "none" THEN h.exc ELSE "HTTPError"

C3_OnlyValidItems ==
    /\ SearchOk =>
          LET kept == SelectSeq(Chosen(provider), Valid) IN
          /\ Len(last.results.items) = Len(kept)
          /\ \A i \in 1..Len(kept) :
                /\ last.results.items[i].title = kept[i].title
                /\ last.results.items[i].link = kept[i].link
                /\ NonEmpty(last.results.items[i].title)
                /\ NonEmpty(last.results.items[i].link)
    /\ ResultsReply =>
          \A i \in 1..Len(last.msg.entries) :
              NonEmpty(last.msg.entries[i].title) /\ NonEmpty(last.msg.entries[i].link)

C3_Witness ==
    /\ ResultsReply
    /\ Len(last.results.items) < Len(Chosen(provider))

\* C4: a successful search with an empty result list is answered with exactly
\* the no-results message for the keyword, and a results reply always has at
\* least one entry.
C4_EmptyGivesNoResults ==
    /\ (SearchOk /\ last.results.items = <<>>)
          => last.msg = [kind |-> "noresults", keyword |-> last.keyword]
    /\ ResultsReply => Len(last.msg.entries) >= 1

C4_Witness ==
    /\ SearchOk
    /\ last.results.items = <<>>
    /\ Chosen(provider) # <<>>
    /\ last.msg.kind = "noresults"

C6_EveryFailureCaught ==
    SearchDone =>
        /\ last.msg.kind \in {"results", "noresults", "error"}
        /\ last.raised = "none"

\* C7: a rendered text of at most 4000 characters is sent unchanged; a longer
\* one is sent as a prefix of at most 4000 characters followed by the fixed
\* suffix, within 4000 + len(suffix) and within the platform's limit.
C7_LengthCapped ==
    ResultsReply =>
        IF last.rendered.n + Len(last.rendered.tail) <= TEXT_BUDGET
        THEN last.msg = last.rendered
        ELSE /\ last.msg.entries = last.rendered.entries
             /\ last.msg.keyword = last.rendered.keyword
             /\ last.msg.n <= last.rendered.n
             /\ last.msg.n <= TEXT_BUDGET
             /\ last.msg.tail = CUT_SUFFIX
             /\ last.msg.n + Len(last.msg.tail) <= TEXT_BUDGET + Len(CUT_SUFFIX)
             /\ last.msg.n + Len(last.msg.tail) <= TELEGRAM_LIMIT

C7_Witness ==
    /\ ResultsReply
    /\ last.rendered.n > TEXT_BUDGET
    /\ last.msg.tail = CUT_SUFFIX

\* C8 (as stated): no handler is registered and no command is handled by a
\* process whose bot token or API key is unset.
C8_BothCredentialsFatal ==
    (handlers # {} \/ last.cmd # "none") =>
        (Truthy(TELEGRAM_BOT_TOKEN) /\ Truthy(SERPER_API_KEY))

\* C8 (amended): an unset bot token is fatal at startup (no handler is
\* registered, nothing is polled or handled); an unset API key is not: the bot
\* runs, and every /s with a keyword is answered with the error reply
\* "SERPER_API_KEY is not set" without a request being sent.
C8_TokenFatalKeyReported ==
    /\ ~Truthy(TELEGRAM_BOT_TOKEN) =>
          (handlers = {} /\ proc # "polling" /\ last.cmd = "none")
    /\ (~Truthy(SERPER_API_KEY) /\ SearchDone) =>
          /\ last.request = None
          /\ last.msg = [kind |-> "error", e |-> <<"SERPER_API_KEY is not set">>]
          /\ last.raised = "none"

C8_Witness ==
    /\ ~Truthy(SERPER_API_KEY)
    /\ SearchDone
    /\ proc = "polling"

\* C9 (as stated): each entry shows the provider's position when it is an
\* integer and otherwise (entries kept before it) + 1; never a non-integer.
C9_RankOrFallback ==
    ResultsReply =>
        \A i \in 1..Len(last.msg.entries) :
            /\ last.msg.entries[i].pos.t = "int"
            /\ last.msg.entries[i].pos =
                  IF last.results.items[i].position.t = "int"
                  THEN last.results.items[i].position
                  ELSE PyInt(i)

\* C10 (as stated): the locale shown in the header of a results reply is the
\* gl and hl sent in that command's request.
C10_HeaderLocaleIsRequestLocale ==
    ResultsReply =>
        /\ last.msg.gl = last.request.gl
        /\ last.msg.hl = last.request.hl
====
